---- MODULE Spec2Model ----
(***************************************************************************)
(* Model of atropos' read filtering (commands/trim/filters.py): the        *)
(* predicates, the single-end and paired-end wrappers, the factory and the *)
(* ordered chain of wrappers (Filters); and of its QC statistics           *)
(* (commands/stats.py): the positional tables, ReadStatCollector and       *)
(* ReadStatistics.                                                         *)
(*                                                                         *)
(* Specifications:                                                         *)
(*   Spec           the chain: add_filter / filter / summarize on one      *)
(*                  Filters object built on a FilterFactory chosen in Init;*)
(*   SpecPred       the predicates as pure functions of one read;          *)
(*   SpecCollector  one ReadStatCollector: collect / finish;               *)
(*   SpecFlatten    BaseCountingDicts.flatten as a pure function;          *)
(*   SpecStats      one ReadStatistics: pre_trim / post_trim / finish.     *)
(***************************************************************************)
EXTENDS Integers, Sequences, FiniteSets, TLC

VARIABLES
    factory,    \* the FilterFactory: [paired, min_affected]
    filters,    \* Filters.filters, the OrderedDict, as a sequence of [key, wrapper]
    returned,   \* history: per key, the DISCARD results its current wrapper returned
    last,       \* the last operation: its inputs, its result, what it invoked
    collector,  \* the ReadStatCollector
    hist,       \* history: the collect calls made and the longest read given
    stats       \* the ReadStatistics

vars == <<factory, filters, returned, last, collector, hist, stats>>

chainVars == <<factory, filters, returned>>

statsVars == <<collector, hist, stats>>

\* the value of a variable whose object a specification does not build
NoObject == <<>>

(***************************************************************************)
(* Bounds.                                                                 *)
(***************************************************************************)
\* longest read given to the chain
MaxReadLen == 1
\* filter() is not called once a wrapper has discarded this many reads
MaxCount == 2
\* longest read given to a predicate in SpecPred
MaxLen == 5
\* cutoffs of the N-content predicate in SpecPred are multiples of 1/CutoffDen
CutoffDen == 10

(***************************************************************************)
(* Reads.  A read is [sequence |-> <<symbols>>]; a missing mate is None.   *)
(***************************************************************************)
DISCARD == TRUE
KEEP == FALSE

None == [isNone |-> TRUE]

SeqsUpTo(S, n) == UNION {[1..k -> S] : k \in 0..n}

ReadsOver(S, n) == {[sequence |-> s] : s \in SeqsUpTo(S, n)}

\* len(read) is the length of the read's sequence
ReadLen(read) == Len(read.sequence)

(***************************************************************************)
(* Predicates.  A predicate object is a record carrying its class and the  *)
(* attributes its constructor sets.                                        *)
(***************************************************************************)
TooShortReadFilterNew(minimum_length) ==
    [ftype |-> "TooShortReadFilter", minimum_length |-> minimum_length]

\* mutant: "<=" for "<"
TooShortReadFilterLe(f, read) == ReadLen(read) <= f.minimum_length

TooShortReadFilter(f, read) == ReadLen(read) < f.minimum_length

TooLongReadFilterNew(maximum_length) ==
    [ftype |-> "TooLongReadFilter", maximum_length |-> maximum_length]

TooLongReadFilter(f, read) == ReadLen(read) > f.maximum_length

\* str.lower() on the symbols of a read
Lower(ch) ==
    CASE ch = "A" -> "a"
      [] ch = "C" -> "c"
      [] ch = "N" -> "n"
      [] OTHER -> ch

RECURSIVE StrCount(_, _)
\* str.count(ch) for a one-symbol pattern
StrCount(s, ch) ==
    IF s = <<>> THEN 0
    ELSE (IF Head(s) = ch THEN 1 ELSE 0) + StrCount(Tail(s), ch)

StrLower(s) == [i \in 1..Len(s) |-> Lower(s[i])]

\* A cutoff is the rational num/den, den > 0.
CutoffLt1(count) == count.num < count.den
CutoffGe0(count) == count.num >= 0

\* NContentFilter.__init__: the assert, then is_proportion and cutoff
NContentFilterNew(count) ==
    IF ~CutoffGe0(count) THEN [raised |-> "AssertionError"]
    ELSE [raised |-> "",
          filter |-> [ftype |-> "NContentFilter",
                      is_proportion |-> CutoffLt1(count),
                      cutoff |-> count]]

\* mutant: ">=" for ">" against an absolute cutoff
NContentFilterGe(f, read) ==
    LET n_count == StrCount(StrLower(read.sequence), "n")
    IN  IF f.is_proportion
        THEN IF ReadLen(read) = 0
             THEN FALSE
             ELSE n_count * f.cutoff.den > f.cutoff.num * ReadLen(read)
        ELSE n_count * f.cutoff.den >= f.cutoff.num

\* NContentFilter.__call__; n_count / len(read) > cutoff over the rationals
NContentFilter(f, read) ==
    LET n_count == StrCount(StrLower(read.sequence), "n")
    IN  IF f.is_proportion
        THEN IF ReadLen(read) = 0
             THEN FALSE
             ELSE n_count * f.cutoff.den > f.cutoff.num * ReadLen(read)
        ELSE n_count * f.cutoff.den > f.cutoff.num

\* filter_type(*args): the constructor of each predicate class
NewFilter(filter_type, arg) ==
    CASE filter_type = "TooShortReadFilter" ->
            [raised |-> "", filter |-> TooShortReadFilterNew(arg)]
      [] filter_type = "TooLongReadFilter" ->
            [raised |-> "", filter |-> TooLongReadFilterNew(arg)]
      [] filter_type = "NContentFilter" -> NContentFilterNew(arg)

\* self.filter(read): the call of a predicate object
CallFilter(f, read) ==
    CASE f.ftype = "TooShortReadFilter" -> TooShortReadFilter(f, read)
      [] f.ftype = "TooLongReadFilter" -> TooLongReadFilter(f, read)
      [] f.ftype = "NContentFilter" -> NContentFilter(f, read)

\* FilterWrapper.name: the predicate's name attribute
FilterName(f) ==
    CASE f.ftype = "TooShortReadFilter" -> "too_short"
      [] f.ftype = "TooLongReadFilter" -> "too_long"
      [] f.ftype = "NContentFilter" -> "too_many_n"

(***************************************************************************)
(* Wrappers.  _filter returns its result and, for the claims about which   *)
(* mates are inspected, the mates the predicate was invoked on, in order.  *)
(***************************************************************************)
SingleWrapperNew(f) == [kind |-> "SingleWrapper", filter |-> f, filtered |-> 0]

\* mutant: the second mate is inspected too when there is one
SingleWrapperFilterBoth(w, read1, read2) ==
    IF read2 = None
    THEN [result |-> CallFilter(w.filter, read1), evals |-> <<1>>]
    ELSE [result |-> CallFilter(w.filter, read1) \/ CallFilter(w.filter, read2),
          evals |-> IF CallFilter(w.filter, read1) THEN <<1>> ELSE <<1, 2>>]

SingleWrapperFilter(w, read1, read2) ==
    [result |-> CallFilter(w.filter, read1), evals |-> <<1>>]

\* mutant: min_affected is stored unchecked
PairedWrapperNewUnchecked(f, min_affected) ==
    [raised |-> "",
     wrapper |-> [kind |-> "PairedWrapper", filter |-> f, filtered |-> 0,
                  min_affected |-> min_affected]]

\* PairedWrapper.__init__
PairedWrapperNew(f, min_affected) ==
    IF min_affected \notin {1, 2} THEN [raised |-> "ValueError"]
    ELSE [raised |-> "",
          wrapper |-> [kind |-> "PairedWrapper", filter |-> f, filtered |-> 0,
                       min_affected |-> min_affected]]

\* mutant: when one more failure is needed the second mate counts unseen
PairedWrapperFilterUnseen(w, read1, read2) ==
    LET f1 == CallFilter(w.filter, read1)
        failures1 == IF f1 THEN 1 ELSE 0
        one_more == (w.min_affected - failures1 = 1)
        failures == failures1 + (IF one_more THEN 1 ELSE 0)
    IN  [result |-> (failures >= w.min_affected), evals |-> <<1>>]

\* mutant: both mates are always inspected and the failures counted
PairedWrapperFilterEager(w, read1, read2) ==
    LET f1 == CallFilter(w.filter, read1)
        f2 == read2 = None \/ CallFilter(w.filter, read2)
        failures == (IF f1 THEN 1 ELSE 0) + (IF f2 THEN 1 ELSE 0)
    IN  [result |-> (failures >= w.min_affected),
         evals |-> IF read2 # None THEN <<1, 2>> ELSE <<1>>]

\* PairedWrapper._filter; "and" and "or" evaluate their right side only when needed
PairedWrapperFilter(w, read1, read2) ==
    LET f1 == CallFilter(w.filter, read1)
        failures1 == IF f1 THEN 1 ELSE 0
        one_more == (w.min_affected - failures1 = 1)
        calls2 == one_more /\ read2 # None
        second == one_more /\ (read2 = None \/ CallFilter(w.filter, read2))
        failures == failures1 + (IF second THEN 1 ELSE 0)
    IN  [result |-> (failures >= w.min_affected),
         evals |-> IF calls2 THEN <<1, 2>> ELSE <<1>>]

WrapperFilter(w, read1, read2) ==
    IF w.kind = "PairedWrapper"
    THEN PairedWrapperFilter(w, read1, read2)
    ELSE SingleWrapperFilter(w, read1, read2)

\* mutant: the counter is not incremented
FilterWrapperCallNoCount(w, read1, read2) ==
    LET r == WrapperFilter(w, read1, read2)
    IN  IF r.result
        THEN [wrapper |-> w, result |-> DISCARD, evals |-> r.evals]
        ELSE [wrapper |-> w, result |-> KEEP, evals |-> r.evals]

\* FilterWrapper.__call__
FilterWrapperCall(w, read1, read2) ==
    LET r == WrapperFilter(w, read1, read2)
    IN  IF r.result
        THEN [wrapper |-> [w EXCEPT !.filtered = @ + 1], result |-> DISCARD,
              evals |-> r.evals]
        ELSE [wrapper |-> w, result |-> KEEP, evals |-> r.evals]

\* FilterWrapper.summarize
WrapperSummarize(w) == [records_filtered |-> w.filtered]

\* FilterFactory.__call__
FilterFactoryCall(fac, filter_type, arg) ==
    LET fltr == NewFilter(filter_type, arg)
    IN  IF fltr.raised # "" THEN [raised |-> fltr.raised]
        ELSE IF fac.paired = "both"
             THEN PairedWrapperNew(fltr.filter, fac.min_affected)
             ELSE [raised |-> "", wrapper |-> SingleWrapperNew(fltr.filter)]

(***************************************************************************)
(* Filters: the ordered chain.                                             *)
(***************************************************************************)
NoFilter == "NoFilter"

Keys(fs) == {fs[i].key : i \in 1..Len(fs)}

IndexOf(fs, key) == CHOOSE i \in 1..Len(fs) : fs[i].key = key

\* OrderedDict.__setitem__: a present key keeps its place, a new one goes last
SetItem(fs, key, w) ==
    IF key \in Keys(fs)
    THEN [fs EXCEPT ![IndexOf(fs, key)].wrapper = w]
    ELSE Append(fs, [key |-> key, wrapper |-> w])

RECURSIVE FiltersScanNoBreak(_, _, _, _, _)
\* mutant: the loop goes on after a discard; the last discarding wrapper wins
FiltersScanNoBreak(fs, i, read1, read2, invoked) ==
    IF i > Len(fs)
    THEN [filters |-> fs, dest |-> NoFilter, invoked |-> invoked]
    ELSE LET c == FilterWrapperCall(fs[i].wrapper, read1, read2)
             fs2 == [fs EXCEPT ![i].wrapper = c.wrapper]
             inv2 == Append(invoked, [key |-> fs[i].key, result |-> c.result,
                                      evals |-> c.evals])
             rest == FiltersScanNoBreak(fs2, i + 1, read1, read2, inv2)
         IN  IF c.result /\ rest.dest = NoFilter
             THEN [rest EXCEPT !.dest = fs[i].key]
             ELSE rest

RECURSIVE FiltersScanNoDest(_, _, _, _, _)
\* mutant: the loop stops at a discard without recording its filter type
FiltersScanNoDest(fs, i, read1, read2, invoked) ==
    IF i > Len(fs)
    THEN [filters |-> fs, dest |-> NoFilter, invoked |-> invoked]
    ELSE LET c == FilterWrapperCall(fs[i].wrapper, read1, read2)
             fs2 == [fs EXCEPT ![i].wrapper = c.wrapper]
             inv2 == Append(invoked, [key |-> fs[i].key, result |-> c.result,
                                      evals |-> c.evals])
         IN  IF c.result
             THEN [filters |-> fs2, dest |-> NoFilter, invoked |-> inv2]
             ELSE FiltersScanNoDest(fs2, i + 1, read1, read2, inv2)

RECURSIVE FiltersScan(_, _, _, _, _)
\* the loop of Filters.filter from the i-th wrapper on
FiltersScan(fs, i, read1, read2, invoked) ==
    IF i > Len(fs)
    THEN [filters |-> fs, dest |-> NoFilter, invoked |-> invoked]
    ELSE LET c == FilterWrapperCall(fs[i].wrapper, read1, read2)
             fs2 == [fs EXCEPT ![i].wrapper = c.wrapper]
             inv2 == Append(invoked, [key |-> fs[i].key, result |-> c.result,
                                      evals |-> c.evals])
         IN  IF c.result
             THEN [filters |-> fs2, dest |-> fs[i].key, invoked |-> inv2]
             ELSE FiltersScan(fs2, i + 1, read1, read2, inv2)

\* mutant: every wrapper of the chain is called, whatever the earlier ones returned
FiltersFilterAll(fs, read1, read2) == FiltersScanNoBreak(fs, 1, read1, read2, <<>>)

FiltersFilter(fs, read1, read2) == FiltersScan(fs, 1, read1, read2, <<>>)

\* Filters.summarize: a dict from each wrapper's name to its summary
FiltersSummarize(fs) ==
    [n \in {FilterName(fs[i].wrapper.filter) : i \in 1..Len(fs)} |->
        LET i == CHOOSE j \in 1..Len(fs) :
                    /\ FilterName(fs[j].wrapper.filter) = n
                    /\ \A k \in (j + 1)..Len(fs) :
                          FilterName(fs[k].wrapper.filter) # n
        IN  WrapperSummarize(fs[i].wrapper)]

(***************************************************************************)
(* Inputs of the chain.                                                    *)
(***************************************************************************)
FilterTypes == {"TooShortReadFilter", "TooLongReadFilter", "NContentFilter"}

ChainReads == ReadsOver({"N"}, MaxReadLen)

Rat(n, d) == [num |-> n, den |-> d]

FilterArgs(filter_type) ==
    CASE filter_type = "TooShortReadFilter" -> {1, MaxReadLen + 1}
      [] filter_type = "TooLongReadFilter" -> {MaxReadLen}
      [] filter_type = "NContentFilter" -> {Rat(-1, 1), Rat(0, 1)}

PairedModes == {"both", "first"}

MinAffectedValues == {1, 2, 3}

(***************************************************************************)
(* The chain as a state machine.                                           *)
(***************************************************************************)
Init ==
    /\ factory \in [paired : PairedModes, min_affected : MinAffectedValues]
    /\ filters = <<>>
    /\ returned = [k \in FilterTypes |-> 0]
    /\ last = [op |-> "init"]
    /\ collector = NoObject
    /\ hist = NoObject
    /\ stats = NoObject

\* Filters.add_filter(filter_type, arg)
AddFilter ==
    \E filter_type \in FilterTypes :
      \E arg \in FilterArgs(filter_type) :
        /\ LET r == FilterFactoryCall(factory, filter_type, arg)
           IN  IF r.raised # ""
               THEN /\ UNCHANGED <<filters, returned>>
                    /\ last' = [op |-> "add_filter", filter_type |-> filter_type,
                                raised |-> r.raised, before |-> filters]
               ELSE /\ filters' = SetItem(filters, filter_type, r.wrapper)
                    /\ returned' = [returned EXCEPT ![filter_type] = 0]
                    /\ last' = [op |-> "add_filter", filter_type |-> filter_type,
                                raised |-> "", before |-> filters]
        /\ UNCHANGED factory
        /\ UNCHANGED statsVars

\* Filters.filter(read1, read2)
Filter ==
    \E read1 \in ChainReads :
      \E read2 \in ChainReads \cup {None} :
        /\ \A i \in 1..Len(filters) : filters[i].wrapper.filtered < MaxCount
        /\ LET r == FiltersFilter(filters, read1, read2)
           IN  /\ filters' = r.filters
               /\ returned' =
                     [k \in FilterTypes |->
                        returned[k] +
                        Cardinality({i \in 1..Len(r.invoked) :
                                        /\ r.invoked[i].key = k
                                        /\ r.invoked[i].result = DISCARD})]
               /\ last' = [op |-> "filter", read1 |-> read1, read2 |-> read2,
                           dest |-> r.dest, invoked |-> r.invoked,
                           before |-> filters]
        /\ UNCHANGED factory
        /\ UNCHANGED statsVars

\* Filters.summarize()
Summarize ==
    /\ last' = [op |-> "summarize", result |-> FiltersSummarize(filters)]
    /\ UNCHANGED <<factory, filters, returned>>
    /\ UNCHANGED statsVars

Next == AddFilter \/ Filter \/ Summarize

Spec == Init /\ [][Next]_vars

(***************************************************************************)
(* The predicates as pure functions: Init draws the read, an action builds *)
(* a predicate from an argument and applies it to the read.  The calls are *)
(* independent of each other, so a behaviour makes one.                    *)
(***************************************************************************)
PredReads == ReadsOver({"A", "N", "n"}, MaxLen)

PredLengths == 0..(MaxLen + 1)

PredCutoffs == {Rat(n, CutoffDen) : n \in (-1)..(2 * CutoffDen + 1)}

InitPred ==
    /\ factory = [paired |-> "first", min_affected |-> 1]
    /\ filters = <<>>
    /\ returned = [k \in FilterTypes |-> 0]
    /\ last \in [op : {"read"}, read : PredReads]
    /\ collector = NoObject
    /\ hist = NoObject
    /\ stats = NoObject

\* TooShortReadFilter(minimum_length)(read)
CallTooShort ==
    \E read \in {last.read} :
      \E minimum_length \in PredLengths :
        /\ last.op = "read"
        /\ last' = [op |-> "TooShortReadFilter", arg |-> minimum_length,
                    read |-> read, raised |-> "",
                    result |-> TooShortReadFilter(
                                  TooShortReadFilterNew(minimum_length), read)]
        /\ UNCHANGED <<factory, filters, returned>>
        /\ UNCHANGED statsVars

\* TooLongReadFilter(maximum_length)(read)
CallTooLong ==
    \E read \in {last.read} :
      \E maximum_length \in PredLengths :
        /\ last.op = "read"
        /\ last' = [op |-> "TooLongReadFilter", arg |-> maximum_length,
                    read |-> read, raised |-> "",
                    result |-> TooLongReadFilter(
                                  TooLongReadFilterNew(maximum_length), read)]
        /\ UNCHANGED <<factory, filters, returned>>
        /\ UNCHANGED statsVars

\* NContentFilter(count)(read)
CallNContent ==
    \E read \in {last.read} :
      \E count \in PredCutoffs :
        /\ last.op = "read"
        /\ LET new == NContentFilterNew(count)
           IN  last' = IF new.raised # ""
                       THEN [op |-> "NContentFilter", arg |-> count,
                             read |-> read, raised |-> new.raised]
                       ELSE [op |-> "NContentFilter", arg |-> count,
                             read |-> read, raised |-> "",
                             result |-> NContentFilter(new.filter, read)]
        /\ UNCHANGED <<factory, filters, returned>>
        /\ UNCHANGED statsVars

NextPred == CallTooShort \/ CallTooLong \/ CallNContent

SpecPred == InitPred /\ [][NextPred]_vars

(***************************************************************************)
(* Claims about the chain and the wrappers, checked under Spec.            *)
(***************************************************************************)
ReadPairs == ChainReads \X (ChainReads \cup {None})

AlwaysDiscards(w) ==
    \A p \in ReadPairs : WrapperFilter(w, p[1], p[2]).result = DISCARD

NeverDiscards(w) ==
    \A p \in ReadPairs : WrapperFilter(w, p[1], p[2]).result = KEEP

\* the number of the given mates the wrapper's predicate is true of
Failing(w, mates) == Cardinality({i \in 1..Len(mates) : CallFilter(w.filter, mates[i])})

\* C1: filter(read1, read2) invokes the wrappers in the order they were added,
\* each once, up to and including the first that reports discard, and returns
\* that wrapper's filter type; every later wrapper is left as it was.  A wrapper
\* that never discards keeps a counter of 0, and a chain [always-discard,
\* never-discard] returns the first wrapper's filter type for every call.
C1_FirstDiscardInOrder ==
    /\ \A i \in 1..Len(filters) :
          NeverDiscards(filters[i].wrapper) => filters[i].wrapper.filtered = 0
    /\ last.op = "filter" =>
          LET before == last.before
              invoked == last.invoked
              n == Len(invoked)
          IN  /\ n <= Len(before)
              /\ Len(filters) = Len(before)
              /\ \A i \in 1..n :
                    /\ invoked[i].key = before[i].key
                    /\ invoked[i].result =
                          WrapperFilter(before[i].wrapper, last.read1, last.read2).result
              /\ \A i \in 1..(n - 1) : invoked[i].result = KEEP
              /\ IF n > 0 /\ invoked[n].result = DISCARD
                 THEN last.dest = before[n].key
                 ELSE n = Len(before) /\ last.dest = NoFilter
              /\ \A i \in (n + 1)..Len(before) : filters[i] = before[i]
              /\ (/\ Len(before) = 2
                  /\ AlwaysDiscards(before[1].wrapper)
                  /\ NeverDiscards(before[2].wrapper))
                 => /\ last.dest = before[1].key
                    /\ filters[2].wrapper.filtered = 0

\* C1 witness: a chain of three wrappers stopped at the second one.
C1_Witness ==
    /\ last.op = "filter"
    /\ Len(last.before) = 3
    /\ Len(last.invoked) = 2
    /\ last.dest = last.before[2].key
    /\ WrapperFilter(last.before[3].wrapper, last.read1, last.read2).result = DISCARD

\* C2: filter returns NoFilter exactly when no wrapper of the chain reports
\* discard for the pair (the empty chain included); then every wrapper was
\* invoked once and no counter changed.
C2_NoFilterIffNoDiscard ==
    last.op = "filter" =>
        LET before == last.before
            none == \A i \in 1..Len(before) :
                        WrapperFilter(before[i].wrapper, last.read1, last.read2).result = KEEP
        IN  /\ (last.dest = NoFilter) <=> none
            /\ last.dest = NoFilter =>
                  /\ Len(last.invoked) = Len(before)
                  /\ \A i \in 1..Len(before) : last.invoked[i].key = before[i].key
                  /\ filters = before

\* C2 witness: a chain of two wrappers, one of which can discard, keeps a pair.
C2_Witness ==
    /\ last.op = "filter"
    /\ Len(last.before) = 2
    /\ last.dest = NoFilter
    /\ \E i \in 1..2 : ~NeverDiscards(last.before[i].wrapper)

\* C3: a paired wrapper given both mates discards the pair exactly when the
\* predicate is true of at least min_affected of the two mates.
C3_PairedBothMates ==
    (last.op = "filter" /\ last.read2 # None) =>
        \A i \in 1..Len(last.invoked) :
            LET w == last.before[i].wrapper
            IN  w.kind = "PairedWrapper" =>
                   /\ w.min_affected \in {1, 2}
                   /\ (last.invoked[i].result = DISCARD) <=>
                         (Failing(w, <<last.read1, last.read2>>) >= w.min_affected)

\* C3 witness: min_affected = 2, mate 1 fails, mate 2 passes, the pair is kept.
C3_Witness ==
    /\ last.op = "filter"
    /\ last.read2 # None
    /\ Len(last.invoked) >= 1
    /\ LET w == last.before[1].wrapper
       IN  /\ w.kind = "PairedWrapper"
           /\ w.min_affected = 2
           /\ CallFilter(w.filter, last.read1)
           /\ ~CallFilter(w.filter, last.read2)
           /\ last.invoked[1].result = KEEP

\* C4 (as claimed): a paired wrapper given no second mate does not inspect it
\* and discards exactly when mate 1 alone has at least min_affected failures.
C4_MissingMateNotAFailure ==
    (last.op = "filter" /\ last.read2 = None) =>
        \A i \in 1..Len(last.invoked) :
            LET w == last.before[i].wrapper
            IN  w.kind = "PairedWrapper" =>
                   /\ last.invoked[i].evals = <<1>>
                   /\ (last.invoked[i].result = DISCARD) <=>
                         (Failing(w, <<last.read1>>) >= w.min_affected)

\* C5: a paired wrapper always inspects mate 1 first and inspects mate 2 only
\* when exactly one more failure is needed after mate 1: with min_affected = 1
\* and mate 1 failing the pair is discarded unseen, with min_affected = 2 and
\* mate 1 passing it is kept unseen.
C5_SecondMateOnlyWhenNeeded ==
    last.op = "filter" =>
        \A i \in 1..Len(last.invoked) :
            LET w == last.before[i].wrapper
                f1 == CallFilter(w.filter, last.read1)
                evals == last.invoked[i].evals
            IN  w.kind = "PairedWrapper" =>
                   /\ evals \in {<<1>>, <<1, 2>>}
                   /\ evals = <<1, 2>> =>
                         \/ w.min_affected = 1 /\ ~f1
                         \/ w.min_affected = 2 /\ f1
                   /\ (w.min_affected = 1 /\ f1) =>
                         evals = <<1>> /\ last.invoked[i].result = DISCARD
                   /\ (w.min_affected = 2 /\ ~f1) =>
                         evals = <<1>> /\ last.invoked[i].result = KEEP

\* C5 witness: min_affected = 1, mate 1 fails, a mate 2 that would pass is not
\* inspected, the pair is discarded.
C5_Witness ==
    /\ last.op = "filter"
    /\ last.read2 # None
    /\ Len(last.invoked) >= 1
    /\ LET w == last.before[1].wrapper
       IN  /\ w.kind = "PairedWrapper"
           /\ w.min_affected = 1
           /\ CallFilter(w.filter, last.read1)
           /\ ~CallFilter(w.filter, last.read2)
           /\ last.invoked[1].evals = <<1>>
           /\ last.invoked[1].result = DISCARD

\* C6: a single wrapper's result and its counter depend on mate 1 only: two
\* calls that agree on mate 1 agree on both whatever mate 2 is, and the
\* predicate is never invoked on mate 2.  Every wrapper made by a factory that
\* is not in "both" mode is a single wrapper.
C6_SingleIgnoresSecondMate ==
    /\ factory.paired # "both" =>
          \A i \in 1..Len(filters) : filters[i].wrapper.kind = "SingleWrapper"
    /\ \A i \in 1..Len(filters) :
          LET w == filters[i].wrapper
          IN  w.kind = "SingleWrapper" =>
                 \A read1 \in ChainReads :
                    \A read2, other2 \in ChainReads \cup {None} :
                       LET a == FilterWrapperCall(w, read1, read2)
                           b == FilterWrapperCall(w, read1, other2)
                       IN  /\ a.result = b.result
                           /\ a.wrapper.filtered = b.wrapper.filtered
                           /\ a.evals = <<1>>
    /\ last.op = "filter" =>
          \A i \in 1..Len(last.invoked) :
             LET w == last.before[i].wrapper
             IN  w.kind = "SingleWrapper" =>
                    /\ last.invoked[i].evals = <<1>>
                    /\ last.invoked[i].result = CallFilter(w.filter, last.read1)
                    /\ filters[i].wrapper.filtered =
                          w.filtered + (IF CallFilter(w.filter, last.read1) THEN 1 ELSE 0)

\* C6 witness: a single wrapper keeps a pair whose mate 2 the predicate is true of.
C6_Witness ==
    /\ last.op = "filter"
    /\ last.read2 # None
    /\ Len(last.invoked) >= 1
    /\ LET w == last.before[1].wrapper
       IN  /\ w.kind = "SingleWrapper"
           /\ ~CallFilter(w.filter, last.read1)
           /\ CallFilter(w.filter, last.read2)
           /\ last.invoked[1].result = KEEP
           /\ filters[1].wrapper.filtered = w.filtered

\* C7: a wrapper's counter is the number of its calls that returned DISCARD
\* (a call returning KEEP leaves it, one returning DISCARD adds 1), and
\* summarize() reports that counter for every wrapper of the chain.
C7_CounterIsDiscardsReturned ==
    /\ \A i \in 1..Len(filters) :
          filters[i].wrapper.filtered = returned[filters[i].key]
    /\ last.op = "filter" =>
          \A i \in 1..Len(last.invoked) :
             filters[i].wrapper.filtered =
                last.before[i].wrapper.filtered +
                (IF last.invoked[i].result = DISCARD THEN 1 ELSE 0)
    /\ last.op = "summarize" =>
          /\ DOMAIN last.result =
                {FilterName(filters[i].wrapper.filter) : i \in 1..Len(filters)}
          /\ \A i \in 1..Len(filters) :
                last.result[FilterName(filters[i].wrapper.filter)] =
                   [records_filtered |-> returned[filters[i].key]]

\* C7 witness: a summary of two wrappers that discarded two reads and one read.
C7_Witness ==
    /\ last.op = "summarize"
    /\ Len(filters) >= 2
    /\ returned[filters[1].key] = 1
    /\ returned[filters[2].key] = 2
    /\ last.result[FilterName(filters[2].wrapper.filter)].records_filtered = 2

\* C8: no wrapper holds a min_affected other than 1 or 2; with a factory in
\* "both" mode given another value every add_filter raises, and an add_filter
\* that raises leaves the chain as it was.
C8_InvalidMinAffectedRejected ==
    /\ \A i \in 1..Len(filters) :
          filters[i].wrapper.kind = "PairedWrapper" =>
             filters[i].wrapper.min_affected \in {1, 2}
    /\ (factory.paired = "both" /\ factory.min_affected \notin {1, 2}) =>
          /\ filters = <<>>
          /\ last.op = "add_filter" => last.raised # ""
    /\ (last.op = "add_filter" /\ last.raised # "") => filters = last.before

\* C8 witness: add_filter raised ValueError for min_affected = 3.
C8_Witness ==
    /\ factory.paired = "both"
    /\ factory.min_affected = 3
    /\ last.op = "add_filter"
    /\ last.raised = "ValueError"
    /\ filters = <<>>

(***************************************************************************)
(* Claims about the predicates, checked under SpecPred.                    *)
(***************************************************************************)
\* the number of N symbols of a sequence, in either case
NSymbols(s) == Cardinality({i \in 1..Len(s) : s[i] \in {"N", "n"}})

\* C9: built with a cutoff c >= 0, NContentFilter discards a read, for c < 1,
\* exactly when its length is not 0 and N-count / length > c and, for c >= 1,
\* exactly when N-count > c.
C9_NContentCutoff ==
    (last.op = "NContentFilter" /\ last.arg.num >= 0) =>
        LET c == last.arg
            n == NSymbols(last.read.sequence)
            length == Len(last.read.sequence)
        IN  /\ last.raised = ""
            /\ last.result =
                  IF c.num < c.den
                  THEN length # 0 /\ n * c.den > c.num * length
                  ELSE n * c.den > c.num

\* C9 witness: cutoff 1 keeps a read with exactly one N.
C9_Witness ==
    /\ last.op = "NContentFilter"
    /\ last.arg.num = last.arg.den
    /\ Len(last.read.sequence) >= 2
    /\ NSymbols(last.read.sequence) = 1
    /\ last.raised = ""
    /\ last.result = KEEP

\* C10: TooShortReadFilter discards exactly the reads shorter than its minimum
\* and TooLongReadFilter exactly the reads longer than its maximum; a read
\* whose length is the bound is kept by both.
C10_LengthBounds ==
    /\ last.op = "TooShortReadFilter" =>
          /\ last.result = (Len(last.read.sequence) < last.arg)
          /\ Len(last.read.sequence) = last.arg => last.result = KEEP
    /\ last.op = "TooLongReadFilter" =>
          /\ last.result = (Len(last.read.sequence) > last.arg)
          /\ Len(last.read.sequence) = last.arg => last.result = KEEP

\* C10 witness: a read whose length is the minimum is kept by TooShortReadFilter.
C10_Witness ==
    /\ last.op = "TooShortReadFilter"
    /\ last.arg >= 1
    /\ Len(last.read.sequence) = last.arg
    /\ last.result = KEEP

(***************************************************************************)
(* Statistics (commands/stats.py).                                         *)
(*                                                                         *)
(* A record is [name, sequence, qualities]; an attribute that may be None  *)
(* holds <<>> for None and <<v>> for the value v.  CountingDict, NestedDict *)
(* and qual2int come from atropos.util: a CountingDict is a dict whose      *)
(* missing keys read as 0, a NestedDict a dict whose missing keys read as   *)
(* a new CountingDict, qual2int the Phred score of a quality symbol.        *)
(***************************************************************************)
Some(v) == <<v>>

IsNone(opt) == opt = <<>>

\* CountingDict(): the empty table
CountingDict == <<>>

\* d.get(k, 0)
Get(d, k) == IF k \in DOMAIN d THEN d[k] ELSE 0

\* d[k] += 1
Incr(d, k) == [x \in (DOMAIN d) \cup {k} |-> IF x = k THEN Get(d, k) + 1 ELSE d[x]]

\* nd[k1][k2] += 1 on a NestedDict
NestedIncr(nd, k1, k2) ==
    [x \in (DOMAIN nd) \cup {k1} |->
        IF x = k1
        THEN Incr(IF k1 \in DOMAIN nd THEN nd[k1] ELSE CountingDict, k2)
        ELSE nd[x]]

\* the sum of the counts of a table
RECURSIVE Total(_)
Total(d) ==
    IF DOMAIN d = {} THEN 0
    ELSE LET k == CHOOSE x \in DOMAIN d : TRUE
         IN  d[k] + Total([x \in (DOMAIN d) \ {k} |-> d[x]])

\* ord() of the symbols used
Ord(ch) ==
    CASE ch = "#" -> 35
      [] ch = "1" -> 49
      [] ch = "2" -> 50
      [] ch = "5" -> 53
      [] ch = "A" -> 65
      [] ch = "C" -> 67
      [] ch = "G" -> 71
      [] ch = "I" -> 73
      [] ch = "N" -> 78
      [] ch = "R" -> 82
      [] ch = "T" -> 84
      [] ch = "n" -> 110

\* qual2int(q)
Qual2Int(q) == Ord(q) - 33

RECURSIVE SortedInts(_)
\* sorted(S) for a set of integers
SortedInts(S) ==
    IF S = {} THEN <<>>
    ELSE LET m == CHOOSE x \in S : \A y \in S : x <= y
         IN  <<m>> \o SortedInts(S \ {m})

RECURSIVE SortedChars(_)
\* sorted(S) for a set of one-symbol strings
SortedChars(S) ==
    IF S = {} THEN <<>>
    ELSE LET m == CHOOSE x \in S : \A y \in S : Ord(x) <= Ord(y)
         IN  <<m>> \o SortedChars(S \ {m})

\* CountingDict.sorted_items(): the (key, count) pairs by key
SortedItems(d) ==
    LET keys == SortedInts(DOMAIN d)
    IN  [i \in 1..Len(keys) |-> <<keys[i], d[keys[i]]>>]

\* round(a / b) for a >= 0, b > 0: to the nearest integer, a half to the even one
Round(a, b) ==
    LET q == a \div b
        r == a % b
    IN  IF 2 * r < b THEN q
        ELSE IF 2 * r > b THEN q + 1
        ELSE IF q % 2 = 0 THEN q ELSE q + 1

RECURSIVE SumOrd(_)
\* sum(ord(q) for q in quals)
SumOrd(quals) ==
    IF quals = <<>> THEN 0 ELSE Ord(Head(quals)) + SumOrd(Tail(quals))

(***************************************************************************)
(* BaseDicts: the positional tables, a list of dicts.                      *)
(***************************************************************************)
\* mutant: the list is cut or grown to size
BaseDictsExtendResize(dicts, size) ==
    [i \in 1..size |-> IF i <= Len(dicts) THEN dicts[i] ELSE CountingDict]

\* BaseDicts.extend(size); dict_class() is an empty dict for both subclasses
BaseDictsExtend(dicts, size) ==
    LET n == size - Len(dicts)
    IN  IF n > 0 THEN dicts \o [i \in 1..n |-> CountingDict] ELSE dicts

\* the keys of all the tables of a list
AllKeys(dicts) == UNION {DOMAIN dicts[i] : i \in 1..Len(dicts)}

ACGT == <<"A", "C", "G", "T">>

\* keys - set(acgt + N): the symbols a set iteration puts in some order
OtherKeys(dicts) == AllKeys(dicts) \ {"A", "C", "G", "T", "N"}

Orders(S) == {p \in [1..Cardinality(S) -> S] : \A i, j \in DOMAIN p : p[i] = p[j] => i = j}

\* mutant: the keys in sorted order whatever the datatype
BaseCountingDictsFlattenSorted(dicts, datatype, others) ==
    LET keys == SortedChars(AllKeys(dicts) \cup {"A", "C", "G", "T"})
    IN  <<keys,
          [i \in 1..Len(dicts) |->
              <<i>> \o [j \in 1..Len(keys) |-> Get(dicts[i], keys[j])]]>>

\* BaseCountingDicts.flatten(datatype); others is the order the set
\* difference of line 34 is iterated in
BaseCountingDictsFlatten(dicts, datatype, others) ==
    LET keys == IF datatype = "n"
                THEN ACGT \o others \o
                     (IF "N" \in AllKeys(dicts) THEN <<"N">> ELSE <<>>)
                ELSE SortedChars(AllKeys(dicts))
        header == IF datatype = "q"
                  THEN [j \in 1..Len(keys) |-> Qual2Int(keys[j])]
                  ELSE keys
    IN  <<header,
          [i \in 1..Len(dicts) |->
              <<i>> \o [j \in 1..Len(keys) |-> Get(dicts[i], keys[j])]]>>

\* BaseNestedDicts.flatten(datatype): one row per tile and position
BaseNestedDictsFlatten(dicts, datatype) ==
    LET keys1 == SortedChars(AllKeys(dicts))
        keys2 == SortedChars(UNION {UNION {DOMAIN dicts[i][t] : t \in DOMAIN dicts[i]} :
                                      i \in 1..Len(dicts)})
        header == IF datatype = "q"
                  THEN [j \in 1..Len(keys2) |-> Qual2Int(keys2[j])]
                  ELSE keys2
        row(k, i) == <<i, keys1[k]>> \o
                     [j \in 1..Len(keys2) |->
                         IF keys1[k] \in DOMAIN dicts[i]
                         THEN Get(dicts[i][keys1[k]], keys2[j]) ELSE 0]
    IN  <<header,
          [r \in 1..(Len(keys1) * Len(dicts)) |->
              row(((r - 1) \div Len(dicts)) + 1, ((r - 1) % Len(dicts)) + 1)]>>

\* NestedDict.flatten(shape="wide"): per tile, its table by key
NestedDictFlatten(nd) == [t \in DOMAIN nd |-> SortedItems(nd[t])]

(***************************************************************************)
(* ReadStatCollector.                                                      *)
(***************************************************************************)
\* ReadStatCollector._init_qualities
InitQualities(c) ==
    LET q == [c EXCEPT !.sequence_qualities = Some(CountingDict),
                       !.base_qualities = Some(<<>>)]
    IN  IF c.tile_key_regexp # "None"
        THEN [q EXCEPT !.tile_base_qualities = Some(<<>>),
                       !.tile_sequence_qualities = Some(<<>>)]
        ELSE q

\* ReadStatCollector.__init__(qualities, tile_key_regexp)
ReadStatCollectorNew(qualities, tile_key_regexp) ==
    LET c == [max_read_len |-> 0,
              count |-> 0,
              sequence_lengths |-> CountingDict,
              sequence_gc |-> CountingDict,
              bases |-> <<>>,
              tile_key_regexp |-> tile_key_regexp,
              qualities |-> qualities,
              sequence_qualities |-> <<>>,
              base_qualities |-> <<>>,
              tile_base_qualities |-> <<>>,
              tile_sequence_qualities |-> <<>>]
    IN  IF qualities = "True" THEN InitQualities(c) ELSE c

\* ReadStatCollector.track_tiles
TrackTiles(c) == c.qualities = "True" /\ c.tile_key_regexp # "None"

\* mutant: only the base composition is extended
ExtendBasesOnly(c, new_size) == [c EXCEPT !.bases = BaseDictsExtend(@, new_size)]

\* ReadStatCollector._extend_bases(new_size)
ExtendBases(c, new_size) ==
    LET b == [c EXCEPT !.bases = BaseDictsExtend(@, new_size)]
        q == IF c.qualities = "True"
             THEN [b EXCEPT !.base_qualities = Some(BaseDictsExtend(@[1], new_size))]
             ELSE b
    IN  IF c.qualities = "True" /\ TrackTiles(c)
        THEN [q EXCEPT !.tile_base_qualities = Some(BaseDictsExtend(@[1], new_size))]
        ELSE q

\* self.tile_key_regexp.match(record.name): the tile a name holds, if it holds one
TileMatch(name) ==
    CASE name = "1:a" -> Some("1")
      [] name = "2:a" -> Some("2")
      [] OTHER -> <<>>

\* ReadStatCollector.add_base(i, base, qual, tile); i counts from 0
AddBase(c, i, base, qual, tile) ==
    IF i + 1 > Len(c.bases) THEN [collector |-> c, raised |-> "IndexError"]
    ELSE LET b == [c EXCEPT !.bases[i + 1] = Incr(@, base)]
         IN  IF IsNone(qual) THEN [collector |-> b, raised |-> ""]
             ELSE IF IsNone(b.base_qualities) \/ i + 1 > Len(b.base_qualities[1])
             THEN [collector |-> b,
                   raised |-> IF IsNone(b.base_qualities) THEN "TypeError" ELSE "IndexError"]
             ELSE LET q == [b EXCEPT !.base_qualities[1][i + 1] = Incr(@, qual[1])]
                  IN  IF IsNone(tile) THEN [collector |-> q, raised |-> ""]
                      ELSE IF IsNone(q.tile_base_qualities)
                              \/ i + 1 > Len(q.tile_base_qualities[1])
                      THEN [collector |-> q,
                            raised |-> IF IsNone(q.tile_base_qualities)
                                       THEN "TypeError" ELSE "IndexError"]
                      ELSE [collector |->
                               [q EXCEPT !.tile_base_qualities[1][i + 1] =
                                            NestedIncr(@, tile[1], qual[1])],
                            raised |-> ""]

RECURSIVE AddBases(_, _, _, _, _)
\* the loop of collect over enumerate(zip(seq, quals)), from index i on
AddBases(c, seq, quals, i, tile) ==
    IF i >= Len(seq) \/ i >= Len(quals) THEN [collector |-> c, raised |-> ""]
    ELSE LET r == AddBase(c, i, seq[i + 1], Some(quals[i + 1]), tile)
         IN  IF r.raised # "" THEN r
             ELSE AddBases(r.collector, seq, quals, i + 1, tile)

\* a record whose qualities are neither None nor empty
HasQualities(record) == ~IsNone(record.qualities) /\ record.qualities[1] # <<>>

\* mutant: the tables are allocated anew by every read that has qualities
ActivateAnew(c, record) ==
    IF c.qualities # "False" /\ HasQualities(record)
    THEN InitQualities([c EXCEPT !.qualities = "True"])
    ELSE c

\* the first lines of collect: quality tracking, if undecided, is turned on
\* by a record that has qualities
Activate(c, record) ==
    IF c.qualities = "None" /\ HasQualities(record)
    THEN InitQualities([c EXCEPT !.qualities = "True"])
    ELSE c

\* mutant: the read is counted and its length recorded, its GC is not
CountReadNoGc(c, seqlen, gc) ==
    [c EXCEPT !.count = @ + 1,
              !.sequence_lengths = Incr(@, seqlen)]

\* the three counters of collect: the read, its length, its GC percentage
CountRead(c, seqlen, gc) ==
    [c EXCEPT !.count = @ + 1,
              !.sequence_lengths = Incr(@, seqlen),
              !.sequence_gc = Incr(@, gc)]

\* ReadStatCollector.collect(record), to the state it leaves and what it raised
Collect(c, record) ==
    LET c1 == Activate(c, record)
        seq == record.sequence
        seqlen == Len(seq)
    IN  IF seqlen = 0 THEN [collector |-> c1, raised |-> "ZeroDivisionError"]
        ELSE
        LET gc == Round((StrCount(seq, "C") + StrCount(seq, "G")) * 100, seqlen)
            c2 == CountRead(c1, seqlen, gc)
            c3 == IF seqlen > c2.max_read_len THEN ExtendBases(c2, seqlen) ELSE c2
        IN  IF c3.qualities # "True"
            THEN \* line 209 reads quals, which no line has assigned
                 [collector |-> c3, raised |-> "UnboundLocalError"]
            ELSE IF IsNone(record.qualities)
            THEN \* line 196 iterates over None
                 [collector |-> c3, raised |-> "TypeError"]
            ELSE
            LET quals == record.qualities[1]
                meanqual == Round(SumOrd(quals), seqlen)
                c4 == [c3 EXCEPT !.sequence_qualities = Some(Incr(@[1], meanqual))]
                tile == IF TrackTiles(c4) THEN TileMatch(record.name) ELSE <<>>
            IN  IF TrackTiles(c4) /\ IsNone(tile)
                THEN [collector |-> c4, raised |-> "ValueError"]
                ELSE LET c5 == IF TrackTiles(c4)
                               THEN [c4 EXCEPT !.tile_sequence_qualities =
                                                  Some(NestedIncr(@[1], tile[1], meanqual))]
                               ELSE c4
                     IN  AddBases(c5, seq, quals, 0, tile)

\* mutant: finish starts the collector's count and length distribution anew
FinishReset(c, others) ==
    [collector |-> [c EXCEPT !.count = 0, !.sequence_lengths = CountingDict],
     result |-> [count |-> c.count,
                 length |-> SortedItems(c.sequence_lengths),
                 gc |-> SortedItems(c.sequence_gc),
                 bases |-> BaseCountingDictsFlatten(c.bases, "n", others)]]

\* ReadStatCollector.finish(), to the state it leaves and the mapping it returns
Finish(c, others) ==
    LET result ==
            [count |-> c.count,
             length |-> SortedItems(c.sequence_lengths),
             gc |-> SortedItems(c.sequence_gc),
             bases |-> BaseCountingDictsFlatten(c.bases, "n", others)]
            @@ (IF ~IsNone(c.sequence_qualities) /\ DOMAIN c.sequence_qualities[1] # {}
                THEN [qualities |-> SortedItems(c.sequence_qualities[1])]
                ELSE <<>>)
            @@ (IF ~IsNone(c.base_qualities)
                THEN [base_qualities |->
                         BaseCountingDictsFlatten(c.base_qualities[1], "q", <<>>)]
                ELSE <<>>)
            @@ (IF TrackTiles(c)
                THEN [tile_base_qualities |->
                         BaseNestedDictsFlatten(c.tile_base_qualities[1], "q"),
                      tile_sequence_qualities |->
                         NestedDictFlatten(c.tile_sequence_qualities[1])]
                ELSE <<>>)
    IN  [collector |-> c, result |-> result]

(***************************************************************************)
(* One collector as a state machine.                                       *)
(***************************************************************************)
\* longest read given to a collector
MaxSeqLen == 2
\* most collect calls made on a collector
MaxReads == 3

\* the sequence of length k given to a collector, and its quality string
StatSeq(k) == [i \in 1..k |-> IF i % 2 = 1 THEN "G" ELSE "A"]

StatQuals(k) == [i \in 1..k |-> IF i % 2 = 1 THEN "I" ELSE "#"]

\* the names the tile pattern matches and does not match
StatNames(tile_key_regexp) ==
    IF tile_key_regexp = "None" THEN {"1:a"} ELSE {"1:a", "2:a", "a"}

StatRecords(tile_key_regexp) ==
    {[name |-> n, sequence |-> StatSeq(k), qualities |-> q] :
        n \in StatNames(tile_key_regexp),
        k \in 0..MaxSeqLen,
        q \in {<<>>}} \cup
    {[name |-> n, sequence |-> StatSeq(k), qualities |-> Some(StatQuals(k))] :
        n \in StatNames(tile_key_regexp),
        k \in 0..MaxSeqLen}

QualitiesArgs == {"None", "False", "True"}

TileKeyRegexps == {"None", "tile"}

InitCollector ==
    /\ collector \in {ReadStatCollectorNew(q, t) : q \in QualitiesArgs, t \in TileKeyRegexps}
    /\ hist = [calls |-> 0, maxlen |-> 0, given |-> collector.qualities]
    /\ last = [op |-> "init"]
    /\ factory = NoObject
    /\ filters = NoObject
    /\ returned = NoObject
    /\ stats = NoObject

Max(a, b) == IF a >= b THEN a ELSE b

\* collector.collect(record)
CollectCall ==
    \E record \in StatRecords(collector.tile_key_regexp) :
        /\ hist.calls < MaxReads
        /\ LET r == Collect(collector, record)
           IN  /\ collector' = r.collector
               /\ last' = [op |-> "collect", record |-> record,
                           raised |-> r.raised, before |-> collector]
        /\ hist' = [hist EXCEPT !.calls = @ + 1,
                                 !.maxlen = Max(@, Len(record.sequence))]
        /\ UNCHANGED <<chainVars, stats>>

\* collector.finish()
FinishCall ==
    \E others \in Orders(OtherKeys(collector.bases)) :
        /\ LET r == Finish(collector, others)
           IN  /\ collector' = r.collector
               /\ last' = [op |-> "finish", result |-> r.result, before |-> collector]
        /\ UNCHANGED <<chainVars, hist, stats>>

NextCollector == CollectCall \/ FinishCall

SpecCollector == InitCollector /\ [][NextCollector]_vars

(***************************************************************************)
(* Claims on ReadStatCollector, under SpecCollector.                       *)
(***************************************************************************)
RECURSIVE SumCounts(_)
\* the sum of the counts of a list of (key, count) pairs
SumCounts(items) ==
    IF items = <<>> THEN 0 ELSE Head(items)[2] + SumCounts(Tail(items))

\* C11: after N reads were given to collect, finish() reports count = N and
\* the counts of its length distribution add up to N.
C11_CountIsReads ==
    last.op = "finish" =>
        /\ last.result.count = hist.calls
        /\ SumCounts(last.result.length) = hist.calls

\* C12: collect on a zero-length read does not raise; the read is counted
\* and the entries for length 0 and for GC 0 each grow by one.
C12_EmptyReadCollected ==
    (last.op = "collect" /\ Len(last.record.sequence) = 0) =>
        /\ last.raised = ""
        /\ collector.count = last.before.count + 1
        /\ Get(collector.sequence_lengths, 0) = Get(last.before.sequence_lengths, 0) + 1
        /\ Get(collector.sequence_gc, 0) = Get(last.before.sequence_gc, 0) + 1

\* C13: with tile tracking enabled, collect on a read (here one that has
\* quality data) whose name does not match the tile pattern raises and
\* leaves the collector as it was before the call.
C13_TileMismatchAtomic ==
    (/\ last.op = "collect"
     /\ TrackTiles(last.before)
     /\ ~IsNone(last.record.qualities)
     /\ IsNone(TileMatch(last.record.name))) =>
        /\ last.raised # ""
        /\ collector = last.before

\* C14: the mapping finish() returns always has count, length, gc and bases;
\* it has qualities and base_qualities exactly when quality tracking was
\* activated, and the two tile keys exactly when tile tracking is enabled.
C14_FinishKeys ==
    last.op = "finish" =>
        LET keys == DOMAIN last.result
        IN  /\ {"count", "length", "gc", "bases"} \subseteq keys
            /\ ("qualities" \in keys) <=> (collector.qualities = "True")
            /\ ("base_qualities" \in keys) <=> (collector.qualities = "True")
            /\ ("tile_base_qualities" \in keys) <=> TrackTiles(collector)
            /\ ("tile_sequence_qualities" \in keys) <=> TrackTiles(collector)

(***************************************************************************)
(* ReadStatistics: the collectors before trimming and, per destination,    *)
(* after trimming.  pre is None or the list of collectors, post is None or *)
(* the dict from destination to list of collectors.                        *)
(***************************************************************************)
\* ReadStatistics._make_collectors
MakeCollectors(s) ==
    [i \in 1..(IF s.paired THEN 2 ELSE 1) |->
        ReadStatCollectorNew(s.collector_args.qualities, s.collector_args.tile_key_regexp)]

\* ReadStatistics.__init__(mode, paired, **kwargs)
ReadStatisticsNew(mode, paired, kwargs) ==
    LET s == [mode |-> mode, paired |-> paired, pre |-> <<>>, post |-> <<>>,
              collector_args |-> kwargs]
        p == IF mode \in {"pre", "both"} THEN [s EXCEPT !.pre = Some(MakeCollectors(s))] ELSE s
    IN  IF mode \in {"post", "both"} THEN [p EXCEPT !.post = Some(<<>>)] ELSE p

\* a list of collectors after the collect call on its k-th has returned r
SetMate(collectors, k, r) ==
    [collectors |-> [collectors EXCEPT ![k] = r.collector], raised |-> r.raised]

\* collectors[1].collect(records[1]), reached if the first call returned and
\* the manager is paired
CollectSecond(m, records, both) ==
    IF m.raised # "" \/ ~both THEN m
    ELSE SetMate(m.collectors, 2, Collect(m.collectors[2], records[2]))

\* collectors[0].collect(records[0]) and, if both, collectors[1].collect(records[1])
CollectMates(collectors, records, both) ==
    CollectSecond(SetMate(collectors, 1, Collect(collectors[1], records[1])), records, both)

\* the manager once the calls on its pre-trim collectors ended as m
PreTrimEnd(s, m) ==
    [stats |-> [s EXCEPT !.pre = Some(m.collectors)], raised |-> m.raised]

\* ReadStatistics.pre_trim(record): record is the pair of mates if paired
PreTrim(s, record) ==
    IF IsNone(s.pre) THEN [stats |-> s, raised |-> ""]
    ELSE PreTrimEnd(s, CollectMates(s.pre[1], record, s.paired))

\* if dest not in self.post: self.post[dest] = self._make_collectors()
PostOf(s, dest) ==
    IF dest \in DOMAIN s.post[1] THEN s
    ELSE [s EXCEPT !.post = Some([d \in (DOMAIN s.post[1]) \cup {dest} |->
                                     IF d = dest THEN MakeCollectors(s) ELSE s.post[1][d]])]

\* the manager once the calls on the collectors of dest ended as m
PostTrimEnd(s, dest, m) ==
    [stats |-> [s EXCEPT !.post[1][dest] = m.collectors], raised |-> m.raised]

\* the calls of post_trim on the collectors of dest
PostTrimOn(s, dest, record) ==
    PostTrimEnd(s, dest, CollectMates(s.post[1][dest], record, s.paired))

\* ReadStatistics.post_trim(dest, record)
PostTrim(s, dest, record) ==
    IF IsNone(s.post) THEN [stats |-> s, raised |-> ""]
    ELSE PostTrimOn(PostOf(s, dest), dest, record)

\* 'read{}'.format(read)
ReadKey(read) == IF read = 1 THEN "read1" ELSE "read2"

\* the symbols beyond A, C, G, T, N that the collectors of a manager hold
StatsOtherKeys(s) ==
    UNION ({OtherKeys(s.pre[i][k].bases) : i \in DOMAIN s.pre, k \in 1..(IF s.paired THEN 2 ELSE 1)}
           \cup {UNION {OtherKeys(s.post[i][d][k].bases) : d \in DOMAIN s.post[i],
                                                            k \in 1..(IF s.paired THEN 2 ELSE 1)} :
                    i \in DOMAIN s.post})

\* dict(('read{}'.format(read), stats.finish()) for read, stats in enumerate(collectors, 1))
FinishMates(collectors, others) ==
    [key \in {ReadKey(k) : k \in 1..Len(collectors)} |->
        LET c == collectors[IF key = "read1" THEN 1 ELSE 2]
        IN  Finish(c, SelectSeq(others, LAMBDA x : x \in OtherKeys(c.bases))).result]

\* ReadStatistics.finish(); line 114 reads the name post, which finish never
\* binds, as soon as the dict of destinations has an item
StatsFinish(s, others) ==
    LET pre == IF ~IsNone(s.pre) THEN [pre |-> FinishMates(s.pre[1], others)] ELSE <<>>
    IN  IF IsNone(s.post) THEN [stats |-> s, raised |-> "", result |-> Some(pre)]
        ELSE IF DOMAIN s.post[1] # {}
        THEN [stats |-> s, raised |-> "NameError", result |-> <<>>]
        ELSE [stats |-> s, raised |-> "", result |-> Some(pre @@ [post |-> <<>>])]

(***************************************************************************)
(* One ReadStatistics as a state machine.                                  *)
(***************************************************************************)
\* most pre_trim and post_trim calls made on a manager
MaxCalls == 2

Modes == {"pre", "post", "both"}

CollectorArgs == [qualities : {"None", "True"}, tile_key_regexp : {"None"}]

Destinations == {"out1", "out2"}

\* the reads given to a manager: empty or of one base, with or without qualities
MateRecords == {r \in StatRecords("None") : Len(r.sequence) <= 1}

\* what pre_trim and post_trim are given: the mates of a read
TrimRecords(paired) ==
    IF paired THEN {<<r1, r2>> : r1 \in MateRecords, r2 \in MateRecords}
    ELSE {<<r>> : r \in MateRecords}

InitStats ==
    /\ stats \in {ReadStatisticsNew(m, p, a) : m \in Modes, p \in BOOLEAN, a \in CollectorArgs}
    /\ hist = [calls |-> 0, posts |-> [d \in Destinations |-> 0]]
    /\ last = [op |-> "init"]
    /\ collector = NoObject
    /\ factory = NoObject
    /\ filters = NoObject
    /\ returned = NoObject

\* stats.pre_trim(record)
PreTrimCall ==
    \E record \in TrimRecords(stats.paired) :
        /\ hist.calls < MaxCalls
        /\ LET r == PreTrim(stats, record)
           IN  /\ stats' = r.stats
               /\ last' = [op |-> "pre_trim", dest |-> "", record |-> record,
                           raised |-> r.raised, before |-> stats]
        /\ hist' = [hist EXCEPT !.calls = @ + 1]
        /\ UNCHANGED <<chainVars, collector>>

\* stats.post_trim(dest, record)
PostTrimCall ==
    \E dest \in Destinations, record \in TrimRecords(stats.paired) :
        /\ hist.calls < MaxCalls
        /\ LET r == PostTrim(stats, dest, record)
           IN  /\ stats' = r.stats
               /\ last' = [op |-> "post_trim", dest |-> dest, record |-> record,
                           raised |-> r.raised, before |-> stats]
        /\ hist' = [hist EXCEPT !.calls = @ + 1, !.posts[dest] = @ + 1]
        /\ UNCHANGED <<chainVars, collector>>

\* stats.finish()
StatsFinishCall ==
    \E others \in Orders(StatsOtherKeys(stats)) :
        /\ LET r == StatsFinish(stats, others)
           IN  /\ stats' = r.stats
               /\ last' = [op |-> "finish", raised |-> r.raised, result |-> r.result,
                           before |-> stats]
        /\ UNCHANGED <<chainVars, collector, hist>>

NextStats == PreTrimCall \/ PostTrimCall \/ StatsFinishCall

SpecStats == InitStats /\ [][NextStats]_vars

\* C15: ReadStatistics.finish() succeeds after any pre_trim and post_trim
\* calls; its result holds, under 'pre', the finish() of each pre-trim
\* collector by mate and, under 'post' and each destination that was given
\* a read, the finish() of each of that destination's collectors by mate.
C15_StatsFinishStructure ==
    last.op = "finish" =>
        /\ last.raised = ""
        /\ ~IsNone(stats.pre) =>
              \A k \in 1..Len(stats.pre[1]) :
                  last.result[1].pre[ReadKey(k)] = Finish(stats.pre[1][k], <<>>).result
        /\ ~IsNone(stats.post) =>
              \A d \in DOMAIN stats.post[1] : \A k \in 1..Len(stats.post[1][d]) :
                  last.result[1].post[d][ReadKey(k)] = Finish(stats.post[1][d][k], <<>>).result

(***************************************************************************)
(* BaseCountingDicts.flatten on the base composition, as a function of the *)
(* tables it is given.                                                     *)
(***************************************************************************)
\* most positions of a table set given to flatten
MaxPositions == 2

\* the symbols a table may hold: one of A, C, G, T, N itself and two others
FlatSymbols == {"A", "N", "R", "n"}

FlatCounts == {1, 2}

\* the tables of one position: some symbols, each seen FlatCounts times
FlatTables == {[x \in S |-> c] : S \in SUBSET FlatSymbols, c \in FlatCounts}

FlatTableSets == UNION {[1..n -> FlatTables] : n \in 0..MaxPositions}

InitFlatten ==
    /\ last \in [op : {"tables"}, dicts : FlatTableSets]
    /\ collector = NoObject
    /\ hist = NoObject
    /\ stats = NoObject
    /\ factory = NoObject
    /\ filters = NoObject
    /\ returned = NoObject

\* bases.flatten(datatype="n")
FlattenCall ==
    /\ last.op = "tables"
    /\ \E others \in Orders(OtherKeys(last.dicts)) :
           last' = [op |-> "flatten", dicts |-> last.dicts,
                    out |-> BaseCountingDictsFlatten(last.dicts, "n", others)]
    /\ UNCHANGED <<chainVars, statsVars>>

NextFlatten == FlattenCall

SpecFlatten == InitFlatten /\ [][NextFlatten]_vars

\* C16: the header flatten gives for the base composition starts with
\* A, C, G, T, holds every observed symbol once, and ends with N when N was
\* observed; there is one row per position, and a row holds its position
\* and, for each key of the header, the count at that position or 0.
C16_BasesOrdering ==
    last.op = "flatten" =>
        LET header == last.out[1]
            rows == last.out[2]
            keys == AllKeys(last.dicts)
        IN  /\ Len(header) >= 4
            /\ SubSeq(header, 1, 4) = <<"A", "C", "G", "T">>
            /\ {header[j] : j \in 1..Len(header)} = keys \cup {"A", "C", "G", "T"}
            /\ \A i, j \in 1..Len(header) : header[i] = header[j] => i = j
            /\ "N" \in keys => header[Len(header)] = "N"
            /\ Len(rows) = Len(last.dicts)
            /\ \A i \in 1..Len(rows) :
                  /\ Len(rows[i]) = Len(header) + 1
                  /\ rows[i][1] = i
                  /\ \A j \in 1..Len(header) :
                        rows[i][j + 1] = IF header[j] \in DOMAIN last.dicts[i]
                                         THEN last.dicts[i][header[j]] ELSE 0

\* two positions, N and two other symbols observed, one of them at one
\* position only
C16_Witness ==
    /\ last.op = "flatten"
    /\ Len(last.dicts) = 2
    /\ {"N", "R", "n"} \subseteq AllKeys(last.dicts)
    /\ "R" \notin DOMAIN last.dicts[1]
    /\ last.out[1][5] = "n"

\* the count of key k at position i (from 1) of a positional table set
At(dicts, i, k) == IF i <= Len(dicts) THEN Get(dicts[i], k) ELSE 0

\* the positional quality tables of a collector, none before activation
QualityTables(c) == IF IsNone(c.base_qualities) THEN <<>> ELSE c.base_qualities[1]

\* C17: a collect call adds one, at each position of the read, to the base
\* composition count of the symbol at that position and changes no other
\* base composition count; with quality tracking active and a read that has
\* qualities, it adds one per position to the count of the quality there.
C17_BasesPerPosition ==
    last.op = "collect" =>
        LET seq == last.record.sequence
            old == last.before.bases
            new == collector.bases
        IN  /\ \A i \in 1..Max(Len(seq), Max(Len(old), Len(new))) :
                  \A sym \in AllKeys(old) \cup AllKeys(new) \cup {seq[j] : j \in 1..Len(seq)} :
                      At(new, i, sym) =
                          At(old, i, sym) + (IF i <= Len(seq) /\ seq[i] = sym THEN 1 ELSE 0)
            /\ (collector.qualities = "True" /\ ~IsNone(last.record.qualities)) =>
                  \A i \in 1..Len(seq) :
                      At(QualityTables(collector), i, last.record.qualities[1][i]) =
                          At(QualityTables(last.before), i, last.record.qualities[1][i]) + 1

\* the positional tile tables of a collector, none unless tiles are tracked
TileTables(c) == IF IsNone(c.tile_base_qualities) THEN <<>> ELSE c.tile_base_qualities[1]

\* C18: the base composition table set is as long as the longest read
\* given so far; no call makes a positional table set shorter; extend(size)
\* appends size - length empty tables when size is larger, changes nothing
\* otherwise, and keeps the tables there were.
C18_TableSetLength ==
    /\ Len(collector.bases) = hist.maxlen
    /\ last.op \in {"collect", "finish"} =>
          /\ Len(collector.bases) >= Len(last.before.bases)
          /\ Len(QualityTables(collector)) >= Len(QualityTables(last.before))
          /\ Len(TileTables(collector)) >= Len(TileTables(last.before))
    /\ \A size \in 0..(MaxSeqLen + 1) :
          LET old == collector.bases
              new == BaseDictsExtend(old, size)
          IN  /\ Len(new) = Max(Len(old), size)
              /\ SubSeq(new, 1, Len(old)) = old
              /\ \A i \in (Len(old) + 1)..Len(new) : new[i] = CountingDict

\* a shorter read collected after a longer one whose bases were recorded
C18_Witness ==
    /\ last.op = "collect"
    /\ last.raised = ""
    /\ 0 < Len(last.record.sequence)
    /\ Len(last.record.sequence) < hist.maxlen
    /\ Len(collector.bases) = hist.maxlen
    /\ DOMAIN collector.bases[hist.maxlen] # {}

\* every count a table holds is still there, or larger
Grown(old, new) == \A k \in DOMAIN old : Get(new, k) >= old[k]

\* an allocated table of a collector that is allocated and has only grown
KeptTable(old, new) == ~IsNone(old) => (~IsNone(new) /\ Grown(old[1], new[1]))

\* an allocated positional table set that is allocated and has only grown
KeptTables(old, new) ==
    ~IsNone(old) =>
        /\ ~IsNone(new)
        /\ Len(new[1]) >= Len(old[1])
        /\ \A i \in 1..Len(old[1]) : Grown(old[1][i], new[1][i])

\* once active, quality tracking is active after the call, with the tables
\* it had
StaysActive ==
    (last.op \in {"collect", "finish"} /\ last.before.qualities = "True") =>
        /\ collector.qualities = "True"
        /\ KeptTable(last.before.sequence_qualities, collector.sequence_qualities)
        /\ KeptTables(last.before.base_qualities, collector.base_qualities)

\* quality tracking is on and its tables are allocated
Active(c) ==
    /\ c.qualities = "True"
    /\ ~IsNone(c.sequence_qualities)
    /\ ~IsNone(c.base_qualities)

\* C19 (as stated): quality tracking is active after any collected read
\* that has quality data, its tables allocated, and once active it stays
\* active with the tables it has, whatever is collected or finished later.
C19_ActivationPermanent ==
    /\ (last.op = "collect" /\ HasQualities(last.record)) => Active(collector)
    /\ StaysActive

\* C19 (amended): a collector built with qualities=False never activates
\* quality tracking; any other collector is active after a collected read
\* that has quality data and not before one unless built active; once
\* active, tracking stays active with the tables it has.
C19_ActivationUnlessDisabled ==
    /\ (hist.given = "False") =>
          /\ collector.qualities = "False"
          /\ IsNone(collector.sequence_qualities)
          /\ IsNone(collector.base_qualities)
    /\ (last.op = "collect" /\ HasQualities(last.record) /\ hist.given # "False") =>
          Active(collector)
    /\ (last.op = "collect" /\ last.before.qualities = "None"
           /\ ~HasQualities(last.record)) =>
          collector.qualities = "None"
    /\ StaysActive

\* a collector built undecided, activated by an earlier read, has collected
\* a read with no qualities and still holds the mean quality it recorded
C19_Witness ==
    /\ hist.given = "None"
    /\ last.op = "collect"
    /\ last.before.qualities = "True"
    /\ ~HasQualities(last.record)
    /\ Active(collector)
    /\ DOMAIN collector.sequence_qualities[1] # {}

CollectorsBefore(s, dest) ==
    IF dest \in DOMAIN s.post[1] THEN s.post[1][dest] ELSE MakeCollectors(s)

\* C21: post_trim(dest, record) creates the collectors of dest on the first
\* call only (one if single-end, two if paired), gives mate 1 to the first
\* and, if paired, mate 2 to the second, leaves the other destinations and
\* the pre-trim collectors as they were; the count of each collector of a
\* destination is the number of post_trim calls made for it.
C21_PostTrimPerDestination ==
    /\ (last.op = "post_trim" /\ ~IsNone(last.before.post)) =>
          LET old == CollectorsBefore(last.before, last.dest)
              new == stats.post[1][last.dest]
          IN  /\ DOMAIN stats.post[1] = (DOMAIN last.before.post[1]) \cup {last.dest}
              /\ Len(new) = (IF stats.paired THEN 2 ELSE 1)
              /\ new[1] = Collect(old[1], last.record[1]).collector
              /\ stats.paired => new[2] = Collect(old[2], last.record[2]).collector
              /\ \A d \in (DOMAIN last.before.post[1]) \ {last.dest} :
                    stats.post[1][d] = last.before.post[1][d]
              /\ stats.pre = last.before.pre
    /\ (last.op \in {"pre_trim", "post_trim", "finish"} /\ ~IsNone(stats.post)) =>
          \A d \in DOMAIN stats.post[1] : \A k \in 1..Len(stats.post[1][d]) :
              stats.post[1][d][k].count = hist.posts[d]

(***************************************************************************)
(* Further claims on ReadStatCollector, under SpecCollector.               *)
(***************************************************************************)
RECURSIVE SumPhred(_)
\* the sum of the Phred scores of a quality string
SumPhred(quals) ==
    IF quals = <<>> THEN 0 ELSE Qual2Int(Head(quals)) + SumPhred(Tail(quals))

\* the mean-quality distribution of a collector, empty before activation
MeanQualities(c) == IF IsNone(c.sequence_qualities) THEN <<>> ELSE c.sequence_qualities[1]

\* C22: with quality tracking active, collect on a read with qualities adds
\* one to the mean-quality count whose key is the rounded mean of the
\* read's Phred scores.
C22_MeanQualityIsPhred ==
    (/\ last.op = "collect"
     /\ collector.qualities = "True"
     /\ HasQualities(last.record)
     /\ Len(last.record.sequence) > 0) =>
        LET key == Round(SumPhred(last.record.qualities[1]), Len(last.record.sequence))
        IN  Get(MeanQualities(collector), key) = Get(MeanQualities(last.before), key) + 1

(***************************************************************************)
(* Further claims on the chain of filters, under Spec.                     *)
(***************************************************************************)
\* C23: an add_filter or filter call leaves the filters there were in their
\* places, and the discard count of none of them is less after the call
\* than before.
C23_CountersNeverReset ==
    (last.op \in {"add_filter", "filter"}) =>
        /\ Len(filters) >= Len(last.before)
        /\ \A i \in 1..Len(last.before) :
              /\ filters[i].key = last.before[i].key
              /\ filters[i].wrapper.filtered >= last.before[i].wrapper.filtered

\* C24: a filter call adds one to the counter of the wrapper whose key it
\* returns and leaves every other counter (all of them when it returns
\* NoFilter); a wrapper returns DISCARD in exactly the calls that return
\* its key, so its counter is the number of those calls.
C24_OneCounterPerCall ==
    /\ last.op = "filter" =>
          /\ Len(filters) = Len(last.before)
          /\ \A i \in 1..Len(filters) :
                filters[i].wrapper.filtered =
                    last.before[i].wrapper.filtered +
                    (IF filters[i].key = last.dest THEN 1 ELSE 0)
          /\ \A j \in 1..Len(last.invoked) :
                (last.invoked[j].result = DISCARD) <=> (last.invoked[j].key = last.dest)
          /\ last.dest \in {NoFilter} \cup {filters[i].key : i \in 1..Len(filters)}
    /\ \A i \in 1..Len(filters) :
          returned[filters[i].key] = filters[i].wrapper.filtered

\* the second of two filters discards a read the first one kept, after the
\* first one had discarded another
C24_Witness ==
    /\ last.op = "filter"
    /\ Len(filters) >= 2
    /\ last.dest = filters[2].key
    /\ filters[1].wrapper.filtered >= 1
    /\ filters[2].wrapper.filtered = last.before[2].wrapper.filtered + 1

\* C25: no collect call indexes a positional table set past its end: none
\* raises IndexError, neither the call made nor any call that can be made
\* next, and after a call that went through its positions every table set
\* in use is at least as long as the read.
C25_NoPositionOutOfRange ==
    /\ \A record \in StatRecords(collector.tile_key_regexp) :
          Collect(collector, record).raised # "IndexError"
    /\ last.op = "collect" =>
          /\ last.raised # "IndexError"
          /\ last.raised = "" =>
                /\ Len(collector.bases) >= Len(last.record.sequence)
                /\ Len(QualityTables(collector)) >= Len(last.record.sequence)
                /\ TrackTiles(collector) =>
                      Len(TileTables(collector)) >= Len(last.record.sequence)

\* quality and tile tracking are activated by a read shorter than the
\* base composition that earlier reads without qualities had grown
C25_Witness ==
    /\ last.op = "collect"
    /\ last.raised = ""
    /\ last.before.qualities = "None"
    /\ TrackTiles(collector)
    /\ Len(last.before.bases) > Len(last.record.sequence)
    /\ Len(last.record.sequence) > 0
    /\ DOMAIN TileTables(collector)[1] # {}

\* C26: in every state of a collector the counts of the length distribution
\* and those of the GC distribution each add up to its count, also after a
\* collect call that raised.
C26_DistributionsSumToCount ==
    /\ Total(collector.sequence_lengths) = collector.count
    /\ Total(collector.sequence_gc) = collector.count

\* a collect call that raised after it had counted its read, the second
\* read counted
C26_Witness ==
    /\ last.op = "collect"
    /\ last.raised \in {"UnboundLocalError", "TypeError", "ValueError"}
    /\ collector.count = last.before.count + 1
    /\ collector.count >= 2
    /\ Cardinality(DOMAIN collector.sequence_lengths) = 2

====
